---- MODULE Spec2Model ----
(***************************************************************************)
(* sql-press: structured schema changes (ChangeSet, Table, Change) and     *)
(* their rendering to Postgres DDL (SqlDialect).                           *)
(*                                                                         *)
(* A text is a sequence of pieces (strings); Str concatenates the pieces   *)
(* into the string the program returns.  Every piece is one literal part   *)
(* of a format string or one caller-supplied string.  Caller-supplied      *)
(* strings are drawn from sets whose members neither start nor end with    *)
(* white space, and white space that trim() can reach is a piece of its    *)
(* own, so Trim on pieces removes exactly what str::trim removes.  A       *)
(* double quote character of a format string is a piece of its own, so    *)
(* the neighbours of a caller-supplied piece tell whether it is quoted.    *)
(***************************************************************************)
EXTENDS Integers, Sequences, FiniteSets, TLC

VARIABLES
    cs,          \* the ChangeSet: [schema, changes]
    log,         \* history: the builder calls made on the ChangeSet, in call order
    ddls,        \* history: the texts get_ddl returned since the last builder call
    t,           \* a Table accumulator: [changes, idx_changes]
    calls,       \* history: the method calls made on t, in call order
    extracted,   \* <<>> until t.get_changes() ran, then <<the Changes it returned>>
    cb,          \* a ColumnAddBuilder: [inner |-> ColumnAddChange]
    built,       \* <<>> until cb.build() ran, then <<the ColumnAddChange>>
    suffix,      \* <<>> until constraints() ran on the built column, then <<its String>>
    col_ddl,     \* <<>> until get_ddl ran on the built column, then <<its String>>
    last_set,    \* history: <<>> until a setter ran on cb, then <<the last setter call>>
    request,     \* the last rendering call made on a Change or on the dialect
    outcome      \* how that call ended: the text it returned, or the panic

vars == <<cs, log, ddls, t, calls, extracted, cb, built, suffix, col_ddl, last_set,
          request, outcome>>
changeSetVars == <<cs, log, ddls>>
tableVars == <<t, calls, extracted>>
columnVars == <<cb, built, suffix, col_ddl, last_set>>
dialectVars == <<request, outcome>>

(***************************************************************************)
(* Bounds of the model.                                                    *)
(***************************************************************************)
MaxChanges == 2    \* top-level changes in the ChangeSet
MaxInstr == 2      \* column/index instructions nested in the whole ChangeSet
MaxRenders == 2    \* get_ddl calls between two builder calls
MaxCalls == 3      \* method calls on one Table accumulator

(***************************************************************************)
(* Text.                                                                   *)
(***************************************************************************)
\* a caller-supplied or literal string as a text ("" has no piece)
Tok(s) == IF s = "" THEN <<>> ELSE <<s>>

\* the String a text stands for
RECURSIVE Str(_)
Str(text) == IF text = <<>> THEN "" ELSE Head(text) \o Str(Tail(text))

\* [String]::join(sep): the elements of v with sep between neighbours,
\* empty elements included
RECURSIVE Join(_, _)
Join(v, sep) ==
    IF v = <<>> THEN <<>>
    ELSE IF Len(v) = 1 THEN v[1]
    ELSE v[1] \o sep \o Join(Tail(v), sep)

IsWhitespace(piece) == piece \in {" ", "\n", "\t"}

RECURSIVE TrimStart(_)
TrimStart(text) ==
    IF text # <<>> /\ IsWhitespace(Head(text)) THEN TrimStart(Tail(text)) ELSE text

RECURSIVE TrimEnd(_)
TrimEnd(text) ==
    IF text # <<>> /\ IsWhitespace(text[Len(text)])
    THEN TrimEnd(SubSeq(text, 1, Len(text) - 1))
    ELSE text

\* str::trim
Trim(text) == TrimEnd(TrimStart(text))

(***************************************************************************)
(* Column types, constraints, the add-column builder.                      *)
(***************************************************************************)
DefaultVarcharSize == 255

UUID == [tag |-> "UUID"]
BOOL == [tag |-> "BOOL"]
VARCHAR(size) == [tag |-> "VARCHAR", size |-> size]
REAL == [tag |-> "REAL"]
INTEGER == [tag |-> "INTEGER"]
TEXT == [tag |-> "TEXT"]
TIMESTAMP == [tag |-> "TIMESTAMP"]
TIMESTAMPTZ == [tag |-> "TIMESTAMPTZ"]
JSONB == [tag |-> "JSONB"]

DefaultConstraint_None == [tag |-> "None"]
DefaultConstraint_Plain(s) == [tag |-> "Plain", expr |-> s]

\* Option<T>
None == <<>>
Some(x) == <<x>>

Constraints_default ==
    [primary |-> FALSE, not_null |-> FALSE, unique |-> FALSE,
     default |-> DefaultConstraint_None]

ColumnAddChange_new(name, ct) ==
    [kind |-> "ColumnAddChange", name |-> name, ct |-> ct, with_prefix |-> FALSE,
     constraints |-> Constraints_default]

ColumnAddBuilder_new(name, ct) == [inner |-> ColumnAddChange_new(name, ct)]

ColumnAddBuilder_primary(self, primary) ==
    [self EXCEPT !.inner.constraints.primary = primary]

ColumnAddBuilder_not_null(self, not_null) ==
    [self EXCEPT !.inner.constraints.not_null = not_null]

\* faulty variant: unique(true) also sets not_null
ColumnAddBuilder_unique_NotNull(self, unique) ==
    [self EXCEPT !.inner.constraints.unique = unique,
                 !.inner.constraints.not_null = @ \/ unique]

ColumnAddBuilder_unique(self, unique) ==
    [self EXCEPT !.inner.constraints.unique = unique]

ColumnAddBuilder_default(self, default) ==
    [self EXCEPT !.inner.constraints.default = default]

ColumnAddBuilder_build(self) == self.inner

uuid(name) == ColumnAddBuilder_new(name, UUID)
bool(name) == ColumnAddBuilder_new(name, BOOL)
varchar(name, size) ==
    ColumnAddBuilder_new(name, VARCHAR(IF size = None THEN DefaultVarcharSize ELSE size[1]))
real(name) == ColumnAddBuilder_new(name, REAL)
text(name) == ColumnAddBuilder_new(name, TEXT)
timestamp(name) == ColumnAddBuilder_new(name, TIMESTAMP)
timestamp_tz(name) == ColumnAddBuilder_new(name, TIMESTAMPTZ)
integer(name) == ColumnAddBuilder_new(name, INTEGER)
jsonb(name) == ColumnAddBuilder_new(name, JSONB)

(***************************************************************************)
(* How a call ends: it returns its String, or it panics.                   *)
(***************************************************************************)
Returned(value) == [tag |-> "Returned", value |-> value]
Panicked(message) == [tag |-> "Panicked", message |-> message]

(***************************************************************************)
(* The Postgres dialect.  Every operator returns a text, except add_index, *)
(* which panics.                                                           *)
(***************************************************************************)
Postgres_new == [schema |-> "public"]

\* faulty variant: the nested renders are joined on one line
Postgres_create_table_OneLine(self, name, nested, if_not_exists) ==
    <<"CREATE TABLE ">>
    \o (IF if_not_exists THEN <<"IF NOT EXISTS ">> ELSE <<>>)
    \o Tok(self.schema) \o <<".", "\"">> \o Tok(name) \o <<"\"", " (\n">>
    \o Join(nested, <<", ">>)
    \o <<"\n);">>

Postgres_create_table(self, name, nested, if_not_exists) ==
    <<"CREATE TABLE ">>
    \o (IF if_not_exists THEN <<"IF NOT EXISTS ">> ELSE <<>>)
    \o Tok(self.schema) \o <<".", "\"">> \o Tok(name) \o <<"\"", " (\n">>
    \o Join(nested, <<",\n">>)
    \o <<"\n);">>

\* faulty variant: the nested renders are wrapped in parentheses
Postgres_alter_table_Parenthesised(self, name, nested) ==
    <<"ALTER TABLE ">> \o Tok(self.schema) \o <<".", "\"">> \o Tok(name) \o <<"\"", " (\n">>
    \o Join(nested, <<",\n">>)
    \o <<"\n);">>

Postgres_alter_table(self, name, nested) ==
    <<"ALTER TABLE ">> \o Tok(self.schema) \o <<".", "\"">> \o Tok(name) \o <<"\"", "\n">>
    \o Join(nested, <<",\n">>)
    \o <<";">>

\* faulty variant: the new name is not qualified by the schema
Postgres_rename_table_Unqualified(self, name, new_table_name) ==
    <<"ALTER TABLE ">> \o Tok(self.schema) \o <<".", "\"">> \o Tok(name)
    \o <<"\"", " RENAME TO ", "\"">> \o Tok(new_table_name) \o <<"\"", ";">>

Postgres_rename_table(self, name, new_table_name) ==
    <<"ALTER TABLE ">> \o Tok(self.schema) \o <<".", "\"">> \o Tok(name)
    \o <<"\"", " RENAME TO ">> \o Tok(self.schema) \o <<".", "\"">> \o Tok(new_table_name)
    \o <<"\"", ";">>

Postgres_drop_table(self, name) ==
    <<"DROP TABLE ">> \o Tok(self.schema) \o <<".", "\"">> \o Tok(name) \o <<"\"", ";">>

Postgres_column_type(self, ct) ==
    CASE ct.tag = "UUID" -> <<"uuid">>
      [] ct.tag = "BOOL" -> <<"boolean">>
      [] ct.tag = "VARCHAR" -> <<"VARCHAR(", ToString(ct.size), ")">>
      [] ct.tag = "REAL" -> <<"real">>
      [] ct.tag = "TEXT" -> <<"text">>
      [] ct.tag = "TIMESTAMP" -> <<"timestamp">>
      [] ct.tag = "TIMESTAMPTZ" -> <<"timestamp with time zone">>
      [] ct.tag = "INTEGER" -> <<"integer">>
      [] ct.tag = "JSONB" -> <<"jsonb">>

\* faulty variant: UNIQUE is put before NOT NULL
Postgres_constraints_Reordered(self, constraints) ==
    LET def_constraint ==
            IF constraints.default.tag = "None" THEN <<>>
            ELSE <<"DEFAULT", " ">> \o Tok(constraints.default.expr)
        c == Join(<< IF constraints.primary THEN <<"PRIMARY KEY">> ELSE <<>>,
                     IF constraints.unique THEN <<"UNIQUE">> ELSE <<>>,
                     IF constraints.not_null THEN <<"NOT NULL">> ELSE <<>>,
                     def_constraint >>,
                  <<" ">>)
        trimmed == Trim(c)
    IN  IF trimmed # <<>> THEN <<" ">> \o trimmed ELSE <<>>

\* the four clauses, each possibly empty, joined by " ", then trimmed
Postgres_constraints(self, constraints) ==
    LET def_constraint ==
            IF constraints.default.tag = "None" THEN <<>>
            ELSE <<"DEFAULT", " ">> \o Tok(constraints.default.expr)
        c == Join(<< IF constraints.primary THEN <<"PRIMARY KEY">> ELSE <<>>,
                     IF constraints.not_null THEN <<"NOT NULL">> ELSE <<>>,
                     IF constraints.unique THEN <<"UNIQUE">> ELSE <<>>,
                     def_constraint >>,
                  <<" ">>)
        trimmed == Trim(c)
    IN  IF trimmed # <<>> THEN <<" ">> \o trimmed ELSE <<>>

Postgres_add_column(self, name, with_prefix, ct, constraints) ==
    (IF with_prefix THEN <<"ADD COLUMN ">> ELSE <<>>)
    \o <<"\"">> \o Tok(name) \o <<"\"", " ">>
    \o Postgres_column_type(self, ct)
    \o Postgres_constraints(self, constraints)

Postgres_rename_column(self, name, new_name) ==
    <<"RENAME COLUMN ", "\"">> \o Tok(name) \o <<"\"", " TO ", "\"">> \o Tok(new_name) \o <<"\"">>

\* faulty variant: the conversion expression is put in parentheses
Postgres_alter_column_Wrapped(self, name, ct, conversion_method) ==
    <<"ALTER COLUMN ", "\"">> \o Tok(name) \o <<"\"", " TYPE ">>
    \o Postgres_column_type(self, ct)
    \o (IF conversion_method # None
        THEN <<" USING ", "(">> \o Tok(conversion_method[1]) \o <<")">>
        ELSE <<>>)

Postgres_alter_column(self, name, ct, conversion_method) ==
    <<"ALTER COLUMN ", "\"">> \o Tok(name) \o <<"\"", " TYPE ">>
    \o Postgres_column_type(self, ct)
    \o (IF conversion_method # None
        THEN <<" USING ">> \o Tok(conversion_method[1])
        ELSE <<>>)

Postgres_drop_column(self, name, if_exists) ==
    <<"DROP COLUMN ">> \o (IF if_exists THEN <<"IF EXISTS ">> ELSE <<>>)
    \o <<"\"">> \o Tok(name) \o <<"\"">>

\* todo!(): the call panics with "not yet implemented" and returns nothing
Postgres_add_index(self, table_name, columns, idx_name) ==
    Panicked("not yet implemented")

\* faulty variant: the constraint name comes before ADD
Postgres_add_foreign_index_ConstraintFirst(self, column_name, foreign_table_name, foreign_column_name, idx_name, add_clause) ==
    (IF idx_name # None
     THEN <<"CONSTRAINT ">> \o Tok(idx_name[1]) \o <<" ">>
     ELSE <<>>)
    \o (IF add_clause THEN <<"ADD ">> ELSE <<>>)
    \o <<"FOREIGN KEY(", "\"">> \o Tok(column_name) \o <<"\"", ") REFERENCES ", "\"">>
    \o Tok(foreign_table_name) \o <<"\"", "(", "\"">> \o Tok(foreign_column_name)
    \o <<"\"", ")">>

Postgres_add_foreign_index(self, column_name, foreign_table_name, foreign_column_name, idx_name, add_clause) ==
    (IF add_clause THEN <<"ADD ">> ELSE <<>>)
    \o (IF idx_name # None
        THEN <<"CONSTRAINT ">> \o Tok(idx_name[1]) \o <<" ">>
        ELSE <<>>)
    \o <<"FOREIGN KEY(", "\"">> \o Tok(column_name) \o <<"\"", ") REFERENCES ", "\"">>
    \o Tok(foreign_table_name) \o <<"\"", "(", "\"">> \o Tok(foreign_column_name)
    \o <<"\"", ")">>

Postgres_add_primary_index(self, columns) ==
    <<"PRIMARY KEY(">>
    \o Join([i \in 1..Len(columns) |-> <<"\"">> \o Tok(columns[i]) \o <<"\"">>],
            <<", ">>)
    \o <<")">>

\* SqlDialect::add_unique_constraint is called by IndexAddUniqueChange::get_ddl
\* (index.rs:149); its Postgres implementation is not among the sources.
Postgres_add_unique_constraint(self, constraint_name, columns) ==
    <<"CONSTRAINT ">> \o Tok(constraint_name) \o <<" UNIQUE(">>
    \o Join([i \in 1..Len(columns) |-> <<"\"">> \o Tok(columns[i]) \o <<"\"">>],
            <<", ">>)
    \o <<")">>

(***************************************************************************)
(* Column and index instructions (the leaves of a TableChange).            *)
(***************************************************************************)
ColumnRenameChange(name, new_name) ==
    [kind |-> "ColumnRenameChange", name |-> name, new_name |-> new_name]

ColumnAlterChange(name, ct, conversion_method) ==
    [kind |-> "ColumnAlterChange", name |-> name, ct |-> ct,
     conversion_method |-> conversion_method]

ColumnDropChange(name, if_exists) ==
    [kind |-> "ColumnDropChange", name |-> name, if_exists |-> if_exists]

IndexAddForeignChange(column_name, foreign_table_name, foreign_column_name, idx_name, add_clause) ==
    [kind |-> "IndexAddForeignChange", column_name |-> column_name,
     foreign_table_name |-> foreign_table_name,
     foreign_column_name |-> foreign_column_name,
     idx_name |-> idx_name, add_clause |-> add_clause]

\* The fields are private and no function of the crate builds the struct:
\* it is never an element of a Table's change lists.
IndexAddCombinedChange(table_name, columns, idx_name) ==
    [kind |-> "IndexAddCombinedChange", table_name |-> table_name,
     columns |-> columns, idx_name |-> idx_name]

IndexAddPrimaryChange(columns) ==
    [kind |-> "IndexAddPrimaryChange", columns |-> columns]

IndexAddUniqueChange(constraint_name, columns) ==
    [kind |-> "IndexAddUniqueChange", constraint_name |-> constraint_name,
     columns |-> columns]

ColumnRenameChange_get_ddl(self, dialect) ==
    Postgres_rename_column(dialect, self.name, self.new_name)

ColumnAlterChange_get_ddl(self, dialect) ==
    Postgres_alter_column(dialect, self.name, self.ct, self.conversion_method)

ColumnDropChange_get_ddl(self, dialect) ==
    Postgres_drop_column(dialect, self.name, self.if_exists)

ColumnAddChange_get_ddl(self, dialect) ==
    Postgres_add_column(dialect, self.name, self.with_prefix, self.ct, self.constraints)

IndexAddPrimaryChange_get_ddl(self, dialect) ==
    Postgres_add_primary_index(dialect, self.columns)

IndexAddCombinedChange_get_ddl(self, dialect) ==
    Postgres_add_index(dialect, self.table_name, self.columns, self.idx_name)

IndexAddForeignChange_get_ddl(self, dialect) ==
    Postgres_add_foreign_index(dialect, self.column_name, self.foreign_table_name,
                               self.foreign_column_name, self.idx_name, self.add_clause)

IndexAddUniqueChange_get_ddl(self, dialect) ==
    Postgres_add_unique_constraint(dialect, self.constraint_name, self.columns)

(***************************************************************************)
(* Script, TableChange and the dispatch of Change::get_ddl.                *)
(***************************************************************************)
Script_new(script) == [kind |-> "Script", script |-> script]

\* faulty variant: under a schema other than the default the script is wrapped
Script_get_ddl_SearchPath(self, dialect) ==
    IF dialect.schema = "public" THEN Tok(self.script) \o <<"\n">>
    ELSE <<"SET search_path TO ">> \o Tok(dialect.schema) \o <<";\n">>
         \o Tok(self.script) \o <<"\n">>

Script_get_ddl(self, dialect) == Tok(self.script) \o <<"\n">>

TableChangeOp_Create == [op |-> "Create"]
TableChangeOp_CreateIfNotExists == [op |-> "CreateIfNotExists"]
TableChangeOp_Alter == [op |-> "Alter"]
TableChangeOp_Rename(new_table_name) == [op |-> "Rename", new_table_name |-> new_table_name]
TableChangeOp_Drop == [op |-> "Drop"]

\* the schema argument is dropped: a TableChange has no schema field
TableChange_new(operation, schema, name, nested) ==
    [kind |-> "TableChange", operation |-> operation, name |-> name, changes |-> nested]

RECURSIVE Change_get_ddl(_, _)

TableChange_get_ddl(self, dialect) ==
    LET c == [i \in 1..Len(self.changes) |-> Change_get_ddl(self.changes[i], dialect)]
    IN  CASE self.operation.op = "Create" ->
                Postgres_create_table(dialect, self.name, c, FALSE)
          [] self.operation.op = "CreateIfNotExists" ->
                Postgres_create_table(dialect, self.name, c, TRUE)
          [] self.operation.op = "Alter" ->
                Postgres_alter_table(dialect, self.name, c)
          [] self.operation.op = "Drop" ->
                Postgres_drop_table(dialect, self.name)
          [] self.operation.op = "Rename" ->
                Postgres_rename_table(dialect, self.name, self.operation.new_table_name)

\* c.get_ddl(dialect) on a Box<dyn Change>
Change_get_ddl(c, dialect) ==
    CASE c.kind = "TableChange" -> TableChange_get_ddl(c, dialect)
      [] c.kind = "Script" -> Script_get_ddl(c, dialect)
      [] c.kind = "ColumnAddChange" -> ColumnAddChange_get_ddl(c, dialect)
      [] c.kind = "ColumnDropChange" -> ColumnDropChange_get_ddl(c, dialect)
      [] c.kind = "ColumnRenameChange" -> ColumnRenameChange_get_ddl(c, dialect)
      [] c.kind = "ColumnAlterChange" -> ColumnAlterChange_get_ddl(c, dialect)
      [] c.kind = "IndexAddPrimaryChange" -> IndexAddPrimaryChange_get_ddl(c, dialect)
      [] c.kind = "IndexAddForeignChange" -> IndexAddForeignChange_get_ddl(c, dialect)
      [] c.kind = "IndexAddUniqueChange" -> IndexAddUniqueChange_get_ddl(c, dialect)

(***************************************************************************)
(* Table: the accumulator and its capability traits.                       *)
(***************************************************************************)
Table_new == [changes |-> <<>>, idx_changes |-> <<>>]

\* faulty variant: the index list is chained first
Table_get_changes_IndexFirst(self) == self.idx_changes \o self.changes

Table_get_changes(self) == self.changes \o self.idx_changes

ColumnAdd_add_column(self, column) ==
    [self EXCEPT !.changes = Append(@, column)]

\* faulty variant: the guard flag is set
ColumnDrop_drop_column_Guarded(self, name) ==
    [self EXCEPT !.changes = Append(@, ColumnDropChange(name, TRUE))]

ColumnDrop_drop_column(self, name) ==
    [self EXCEPT !.changes = Append(@, ColumnDropChange(name, FALSE))]

ColumnDrop_drop_column_if_exists(self, name) ==
    [self EXCEPT !.changes = Append(@, ColumnDropChange(name, TRUE))]

\* faulty variant: the column is pushed as given, with_prefix left alone
ColumnAlter_add_column_NoPrefix(self, column) ==
    [self EXCEPT !.changes = Append(@, column)]

ColumnAlter_add_column(self, column) ==
    LET alter_column == [column EXCEPT !.with_prefix = TRUE]
    IN  [self EXCEPT !.changes = Append(@, alter_column)]

ColumnAlter_rename_column(self, name, new_name) ==
    [self EXCEPT !.changes = Append(@, ColumnRenameChange(name, new_name))]

ColumnAlter_alter_column(self, column_name, new_column_type, conversion_method) ==
    [self EXCEPT !.changes =
        Append(@, ColumnAlterChange(column_name, new_column_type, conversion_method))]

IndexAdd_add_foreign_index(self, column_name, foreign_table_name, foreign_column_name, idx_name) ==
    [self EXCEPT !.idx_changes =
        Append(@, IndexAddForeignChange(column_name, foreign_table_name,
                                        foreign_column_name, idx_name, FALSE))]

IndexAdd_add_primary_index(self, columns) ==
    [self EXCEPT !.idx_changes = Append(@, IndexAddPrimaryChange(columns))]

IndexAdd_add_unique_constraint(self, constraint_name, columns) ==
    [self EXCEPT !.idx_changes = Append(@, IndexAddUniqueChange(constraint_name, columns))]

\* faulty variant: the alter-time view leaves add_clause false
IndexAlter_add_foreign_index_Bare(self, column_name, foreign_table_name, foreign_column_name, idx_name) ==
    [self EXCEPT !.idx_changes =
        Append(@, IndexAddForeignChange(column_name, foreign_table_name,
                                        foreign_column_name, idx_name, FALSE))]

IndexAlter_add_foreign_index(self, column_name, foreign_table_name, foreign_column_name, idx_name) ==
    [self EXCEPT !.idx_changes =
        Append(@, IndexAddForeignChange(column_name, foreign_table_name,
                                        foreign_column_name, idx_name, TRUE))]

\* faulty variant: the alter-time view stores the columns in reverse order
IndexAlter_add_primary_index_Reversed(self, columns) ==
    [self EXCEPT !.idx_changes =
        Append(@, IndexAddPrimaryChange([i \in 1..Len(columns) |->
                                            columns[Len(columns) + 1 - i]]))]

IndexAlter_add_primary_index(self, columns) ==
    [self EXCEPT !.idx_changes = Append(@, IndexAddPrimaryChange(columns))]

IndexAlter_add_unique_constraint(self, constraint_name, columns) ==
    [self EXCEPT !.idx_changes = Append(@, IndexAddUniqueChange(constraint_name, columns))]

(***************************************************************************)
(* Handlers.  The closure passed to create_table / alter_table is caller   *)
(* code: a finite sequence of method calls on the trait object it is       *)
(* given.  A call is a record naming the trait, the method and the         *)
(* arguments; Table_call is the dispatch of one call on the Table.         *)
(***************************************************************************)
Table_call(self, call) ==
    CASE call.trait = "ColumnAdd" /\ call.method = "add_column" ->
            ColumnAdd_add_column(self, call.column)
      [] call.trait = "ColumnAlter" /\ call.method = "add_column" ->
            ColumnAlter_add_column(self, call.column)
      [] call.trait = "ColumnDrop" /\ call.method = "drop_column" ->
            ColumnDrop_drop_column(self, call.name)
      [] call.trait = "ColumnDrop" /\ call.method = "drop_column_if_exists" ->
            ColumnDrop_drop_column_if_exists(self, call.name)
      [] call.trait = "ColumnAlter" /\ call.method = "rename_column" ->
            ColumnAlter_rename_column(self, call.name, call.new_name)
      [] call.trait = "ColumnAlter" /\ call.method = "alter_column" ->
            ColumnAlter_alter_column(self, call.name, call.ct, call.conversion_method)
      [] call.trait = "IndexAdd" /\ call.method = "add_foreign_index" ->
            IndexAdd_add_foreign_index(self, call.column_name, call.foreign_table_name,
                                       call.foreign_column_name, call.idx_name)
      [] call.trait = "IndexAdd" /\ call.method = "add_primary_index" ->
            IndexAdd_add_primary_index(self, call.columns)
      [] call.trait = "IndexAdd" /\ call.method = "add_unique_constraint" ->
            IndexAdd_add_unique_constraint(self, call.constraint_name, call.columns)
      [] call.trait = "IndexAlter" /\ call.method = "add_foreign_index" ->
            IndexAlter_add_foreign_index(self, call.column_name, call.foreign_table_name,
                                         call.foreign_column_name, call.idx_name)
      [] call.trait = "IndexAlter" /\ call.method = "add_primary_index" ->
            IndexAlter_add_primary_index(self, call.columns)
      [] call.trait = "IndexAlter" /\ call.method = "add_unique_constraint" ->
            IndexAlter_add_unique_constraint(self, call.constraint_name, call.columns)

\* handler(&mut t): the calls of the closure, in order, on the same Table
RECURSIVE Invoke(_, _)
Invoke(handler, self) ==
    IF handler = <<>> THEN self
    ELSE Invoke(Tail(handler), Table_call(self, Head(handler)))

(***************************************************************************)
(* ChangeSet.                                                              *)
(***************************************************************************)
ChangeSet_new == [schema |-> "public", changes |-> <<>>]

\* faulty variant: the handler runs twice on the Table
ChangeSet_create_table_Twice(self, name, handler) ==
    LET t0 == Table_new
        t1 == Invoke(handler, Invoke(handler, t0))
    IN  [self EXCEPT !.changes =
            Append(@, TableChange_new(TableChangeOp_Create, self.schema, name,
                                      Table_get_changes(t1)))]

ChangeSet_create_table(self, name, handler) ==
    LET t0 == Table_new
        t1 == Invoke(handler, t0)
    IN  [self EXCEPT !.changes =
            Append(@, TableChange_new(TableChangeOp_Create, self.schema, name,
                                      Table_get_changes(t1)))]

\* faulty variant: the accumulator starts with the nested changes of the
\* previous TableChange
ChangeSet_alter_table_Carrying(self, name, handler) ==
    LET last == IF self.changes # <<>> /\ self.changes[Len(self.changes)].kind = "TableChange"
                THEN self.changes[Len(self.changes)].changes
                ELSE <<>>
        t0 == [changes |-> last, idx_changes |-> <<>>]
        t1 == Invoke(handler, t0)
    IN  [self EXCEPT !.changes =
            Append(@, TableChange_new(TableChangeOp_Alter, self.schema, name,
                                      Table_get_changes(t1)))]

ChangeSet_alter_table(self, name, handler) ==
    LET t0 == Table_new
        t1 == Invoke(handler, t0)
    IN  [self EXCEPT !.changes =
            Append(@, TableChange_new(TableChangeOp_Alter, self.schema, name,
                                      Table_get_changes(t1)))]

\* faulty variant: the new change is put in front of the list
ChangeSet_drop_table_Front(self, name) ==
    [self EXCEPT !.changes =
        <<TableChange_new(TableChangeOp_Drop, self.schema, name, <<>>)>> \o @]

ChangeSet_drop_table(self, name) ==
    [self EXCEPT !.changes =
        Append(@, TableChange_new(TableChangeOp_Drop, self.schema, name, <<>>))]

\* faulty variant: the nested change list holds a drop-column instruction
ChangeSet_rename_table_Nested(self, name, new_name) ==
    [self EXCEPT !.changes =
        Append(@, TableChange_new(TableChangeOp_Rename(new_name), self.schema, name,
                                  <<ColumnDropChange(name, FALSE)>>))]

ChangeSet_rename_table(self, name, new_name) ==
    [self EXCEPT !.changes =
        Append(@, TableChange_new(TableChangeOp_Rename(new_name), self.schema, name, <<>>))]

\* faulty variant: the script replaces the change list
ChangeSet_run_script_Replacing(self, script) ==
    [self EXCEPT !.changes = <<Script_new(script)>>]

ChangeSet_run_script(self, script) ==
    [self EXCEPT !.changes = Append(@, Script_new(script))]

\* faulty variant: the renderings are joined by a single newline
ChangeSet_get_ddl_SingleNewline(self, dialect) ==
    Join([i \in 1..Len(self.changes) |-> Change_get_ddl(self.changes[i], dialect)],
         <<"\n">>)

\* the renderings of the top-level changes, in list order, joined by a blank line
ChangeSet_get_ddl(self, dialect) ==
    Join([i \in 1..Len(self.changes) |-> Change_get_ddl(self.changes[i], dialect)],
         <<"\n\n">>)

(***************************************************************************)
(* Inputs.                                                                 *)
(***************************************************************************)
SeqsUpTo(S, n) == UNION {[1..k -> S] : k \in 0..n}

TableNames == {"my_table", "tag"}
NewTableNames == {"tags"}
Scripts == {"DDL INSTRUCTION;"}

Columns ==
    { ColumnAddBuilder_build(ColumnAddBuilder_primary(uuid("id"), TRUE)),
      ColumnAddBuilder_build(varchar("description", None)) }
DropNames == {"test"}
RenamePairs == {<<"id2", "id3">>}
ConversionMethods == {None, Some("%%%conversion_method%%%")}
IdxNames == {None, Some("fk_blubbi")}
IndexColumns == {<<"id", "id2">>}
ConstraintNames == {"uq_tag"}

\* the calls a create_table handler (&mut dyn TableCreate) makes in Spec
HandlerCreateCalls ==
    { [trait |-> "ColumnAdd", method |-> "add_column",
       column |-> ColumnAddBuilder_build(ColumnAddBuilder_primary(uuid("id"), TRUE))],
      [trait |-> "IndexAdd", method |-> "add_primary_index", columns |-> <<"id", "id2">>] }

\* the calls an alter_table handler (&mut dyn TableAlter) makes in Spec
HandlerAlterCalls ==
    { [trait |-> "ColumnAlter", method |-> "add_column",
       column |-> ColumnAddBuilder_build(varchar("description", None))],
      [trait |-> "ColumnDrop", method |-> "drop_column_if_exists", name |-> "id3"],
      [trait |-> "IndexAlter", method |-> "add_foreign_index", column_name |-> "tag_id",
       foreign_table_name |-> "tag", foreign_column_name |-> "id",
       idx_name |-> Some("fk_blubbi")] }

RECURSIVE NestedCount(_)
NestedCount(list) ==
    IF list = <<>> THEN 0
    ELSE (IF Head(list).kind = "TableChange" THEN Len(Head(list).changes) ELSE 0)
         + NestedCount(Tail(list))

\* the handlers that keep the ChangeSet within MaxInstr
Handlers(alphabet) == SeqsUpTo(alphabet, MaxInstr - NestedCount(cs.changes))

(***************************************************************************)
(* Spec: the ChangeSet under builder calls and get_ddl.                    *)
(***************************************************************************)
TableIdle == t = Table_new /\ calls = <<>> /\ extracted = <<>>
ColumnIdle ==
    cb = uuid("id") /\ built = <<>> /\ suffix = <<>> /\ col_ddl = <<>> /\ last_set = <<>>
DialectIdle == request = <<>> /\ outcome = <<>>

ChangeSetIdle == cs = ChangeSet_new /\ log = <<>> /\ ddls = <<>>

Init ==
    /\ cs = ChangeSet_new
    /\ log = <<>>
    /\ ddls = <<>>
    /\ TableIdle
    /\ ColumnIdle
    /\ DialectIdle

CreateTable ==
    /\ Len(cs.changes) < MaxChanges
    /\ \E name \in TableNames, handler \in Handlers(HandlerCreateCalls) :
          /\ cs' = ChangeSet_create_table(cs, name, handler)
          /\ log' = Append(log, [method |-> "create_table", name |-> name,
                                 handler |-> handler])
    /\ ddls' = <<>>
    /\ UNCHANGED <<tableVars, columnVars, dialectVars>>

AlterTable ==
    /\ Len(cs.changes) < MaxChanges
    /\ \E name \in TableNames, handler \in Handlers(HandlerAlterCalls) :
          /\ cs' = ChangeSet_alter_table(cs, name, handler)
          /\ log' = Append(log, [method |-> "alter_table", name |-> name,
                                 handler |-> handler])
    /\ ddls' = <<>>
    /\ UNCHANGED <<tableVars, columnVars, dialectVars>>

DropTable ==
    /\ Len(cs.changes) < MaxChanges
    /\ \E name \in TableNames :
          /\ cs' = ChangeSet_drop_table(cs, name)
          /\ log' = Append(log, [method |-> "drop_table", name |-> name])
    /\ ddls' = <<>>
    /\ UNCHANGED <<tableVars, columnVars, dialectVars>>

RenameTable ==
    /\ Len(cs.changes) < MaxChanges
    /\ \E name \in TableNames, new_name \in NewTableNames :
          /\ cs' = ChangeSet_rename_table(cs, name, new_name)
          /\ log' = Append(log, [method |-> "rename_table", name |-> name,
                                 new_name |-> new_name])
    /\ ddls' = <<>>
    /\ UNCHANGED <<tableVars, columnVars, dialectVars>>

RunScript ==
    /\ Len(cs.changes) < MaxChanges
    /\ \E script \in Scripts :
          /\ cs' = ChangeSet_run_script(cs, script)
          /\ log' = Append(log, [method |-> "run_script", script |-> script])
    /\ ddls' = <<>>
    /\ UNCHANGED <<tableVars, columnVars, dialectVars>>

\* faulty variant: rendering takes the changes out of the ChangeSet
GetDdl_Consuming ==
    /\ Len(ddls) < MaxRenders
    /\ ddls' = Append(ddls, Str(ChangeSet_get_ddl(cs, Postgres_new)))
    /\ cs' = [cs EXCEPT !.changes = <<>>]
    /\ UNCHANGED <<log, tableVars, columnVars, dialectVars>>

\* get_ddl(&self, dialect): the ChangeSet is only read
GetDdl ==
    /\ Len(ddls) < MaxRenders
    /\ ddls' = Append(ddls, Str(ChangeSet_get_ddl(cs, Postgres_new)))
    /\ cs' = cs
    /\ UNCHANGED <<log, tableVars, columnVars, dialectVars>>

Next == CreateTable \/ AlterTable \/ DropTable \/ RenameTable \/ RunScript \/ GetDdl

Spec == Init /\ [][Next]_vars

(***************************************************************************)
(* SpecTable: one Table accumulator under the calls of its capability      *)
(* traits, in any interleaving, then get_changes (which consumes it).      *)
(***************************************************************************)
InitTable ==
    /\ t = Table_new
    /\ calls = <<>>
    /\ extracted = <<>>
    /\ ChangeSetIdle
    /\ ColumnIdle
    /\ DialectIdle

Do_ColumnAdd_add_column ==
    /\ extracted = <<>>
    /\ Len(calls) < MaxCalls
    /\ \E column \in Columns :
          /\ t' = ColumnAdd_add_column(t, column)
          /\ calls' = Append(calls, [trait |-> "ColumnAdd", method |-> "add_column",
                                     column |-> column])
    /\ UNCHANGED <<extracted, changeSetVars, columnVars, dialectVars>>

Do_ColumnAlter_add_column ==
    /\ extracted = <<>>
    /\ Len(calls) < MaxCalls
    /\ \E column \in Columns :
          /\ t' = ColumnAlter_add_column(t, column)
          /\ calls' = Append(calls, [trait |-> "ColumnAlter", method |-> "add_column",
                                     column |-> column])
    /\ UNCHANGED <<extracted, changeSetVars, columnVars, dialectVars>>

Do_ColumnDrop_drop_column ==
    /\ extracted = <<>>
    /\ Len(calls) < MaxCalls
    /\ \E name \in DropNames :
          /\ t' = ColumnDrop_drop_column(t, name)
          /\ calls' = Append(calls, [trait |-> "ColumnDrop", method |-> "drop_column",
                                     name |-> name])
    /\ UNCHANGED <<extracted, changeSetVars, columnVars, dialectVars>>

Do_ColumnDrop_drop_column_if_exists ==
    /\ extracted = <<>>
    /\ Len(calls) < MaxCalls
    /\ \E name \in DropNames :
          /\ t' = ColumnDrop_drop_column_if_exists(t, name)
          /\ calls' = Append(calls, [trait |-> "ColumnDrop", method |-> "drop_column_if_exists",
                                     name |-> name])
    /\ UNCHANGED <<extracted, changeSetVars, columnVars, dialectVars>>

Do_ColumnAlter_rename_column ==
    /\ extracted = <<>>
    /\ Len(calls) < MaxCalls
    /\ \E pair \in RenamePairs :
          /\ t' = ColumnAlter_rename_column(t, pair[1], pair[2])
          /\ calls' = Append(calls, [trait |-> "ColumnAlter", method |-> "rename_column",
                                     name |-> pair[1], new_name |-> pair[2]])
    /\ UNCHANGED <<extracted, changeSetVars, columnVars, dialectVars>>

Do_ColumnAlter_alter_column ==
    /\ extracted = <<>>
    /\ Len(calls) < MaxCalls
    /\ \E conversion_method \in ConversionMethods :
          /\ t' = ColumnAlter_alter_column(t, "description2", UUID, conversion_method)
          /\ calls' = Append(calls, [trait |-> "ColumnAlter", method |-> "alter_column",
                                     name |-> "description2", ct |-> UUID,
                                     conversion_method |-> conversion_method])
    /\ UNCHANGED <<extracted, changeSetVars, columnVars, dialectVars>>

Do_IndexAdd_add_foreign_index ==
    /\ extracted = <<>>
    /\ Len(calls) < MaxCalls
    /\ \E idx_name \in IdxNames :
          /\ t' = IndexAdd_add_foreign_index(t, "tag_id", "tag", "id", idx_name)
          /\ calls' = Append(calls, [trait |-> "IndexAdd", method |-> "add_foreign_index",
                                     column_name |-> "tag_id", foreign_table_name |-> "tag",
                                     foreign_column_name |-> "id", idx_name |-> idx_name])
    /\ UNCHANGED <<extracted, changeSetVars, columnVars, dialectVars>>

Do_IndexAdd_add_primary_index ==
    /\ extracted = <<>>
    /\ Len(calls) < MaxCalls
    /\ \E columns \in IndexColumns :
          /\ t' = IndexAdd_add_primary_index(t, columns)
          /\ calls' = Append(calls, [trait |-> "IndexAdd", method |-> "add_primary_index",
                                     columns |-> columns])
    /\ UNCHANGED <<extracted, changeSetVars, columnVars, dialectVars>>

Do_IndexAdd_add_unique_constraint ==
    /\ extracted = <<>>
    /\ Len(calls) < MaxCalls
    /\ \E constraint_name \in ConstraintNames, columns \in IndexColumns :
          /\ t' = IndexAdd_add_unique_constraint(t, constraint_name, columns)
          /\ calls' = Append(calls, [trait |-> "IndexAdd", method |-> "add_unique_constraint",
                                     constraint_name |-> constraint_name,
                                     columns |-> columns])
    /\ UNCHANGED <<extracted, changeSetVars, columnVars, dialectVars>>

Do_IndexAlter_add_foreign_index ==
    /\ extracted = <<>>
    /\ Len(calls) < MaxCalls
    /\ \E idx_name \in IdxNames :
          /\ t' = IndexAlter_add_foreign_index(t, "tag_id", "tag", "id", idx_name)
          /\ calls' = Append(calls, [trait |-> "IndexAlter", method |-> "add_foreign_index",
                                     column_name |-> "tag_id", foreign_table_name |-> "tag",
                                     foreign_column_name |-> "id", idx_name |-> idx_name])
    /\ UNCHANGED <<extracted, changeSetVars, columnVars, dialectVars>>

Do_IndexAlter_add_primary_index ==
    /\ extracted = <<>>
    /\ Len(calls) < MaxCalls
    /\ \E columns \in IndexColumns :
          /\ t' = IndexAlter_add_primary_index(t, columns)
          /\ calls' = Append(calls, [trait |-> "IndexAlter", method |-> "add_primary_index",
                                     columns |-> columns])
    /\ UNCHANGED <<extracted, changeSetVars, columnVars, dialectVars>>

Do_IndexAlter_add_unique_constraint ==
    /\ extracted = <<>>
    /\ Len(calls) < MaxCalls
    /\ \E constraint_name \in ConstraintNames, columns \in IndexColumns :
          /\ t' = IndexAlter_add_unique_constraint(t, constraint_name, columns)
          /\ calls' = Append(calls, [trait |-> "IndexAlter", method |-> "add_unique_constraint",
                                     constraint_name |-> constraint_name,
                                     columns |-> columns])
    /\ UNCHANGED <<extracted, changeSetVars, columnVars, dialectVars>>

\* get_changes(self) consumes the Table: no call follows it
Do_get_changes ==
    /\ extracted = <<>>
    /\ extracted' = <<Table_get_changes(t)>>
    /\ UNCHANGED <<t, calls, changeSetVars, columnVars, dialectVars>>

NextTable ==
    \/ Do_ColumnAdd_add_column
    \/ Do_ColumnAlter_add_column
    \/ Do_ColumnDrop_drop_column
    \/ Do_ColumnDrop_drop_column_if_exists
    \/ Do_ColumnAlter_rename_column
    \/ Do_ColumnAlter_alter_column
    \/ Do_IndexAdd_add_foreign_index
    \/ Do_IndexAdd_add_primary_index
    \/ Do_IndexAdd_add_unique_constraint
    \/ Do_IndexAlter_add_foreign_index
    \/ Do_IndexAlter_add_primary_index
    \/ Do_IndexAlter_add_unique_constraint
    \/ Do_get_changes

SpecTable == InitTable /\ [][NextTable]_vars

(***************************************************************************)
(* SpecColumn: a ColumnAddBuilder under its setters, build(), and the      *)
(* dialect's rendering of the built column.                                *)
(***************************************************************************)
ColumnNames == {"id", "description"}
VarcharSizes == {None, Some(36)}
DefaultConstraints ==
    { DefaultConstraint_None, DefaultConstraint_Plain("x"),
      DefaultConstraint_Plain("uuid_generate_v4()"), DefaultConstraint_Plain("") }

Builders ==
    UNION { { uuid(n), bool(n), real(n), text(n), timestamp(n), timestamp_tz(n),
              integer(n), jsonb(n) } \cup { varchar(n, size) : size \in VarcharSizes }
            : n \in ColumnNames }

InitColumn ==
    /\ cb \in Builders
    /\ built = <<>>
    /\ suffix = <<>>
    /\ col_ddl = <<>>
    /\ last_set = <<>>
    /\ ChangeSetIdle
    /\ TableIdle
    /\ DialectIdle

Do_primary ==
    /\ built = <<>>
    /\ \E primary \in BOOLEAN :
          /\ cb' = ColumnAddBuilder_primary(cb, primary)
          /\ last_set' = <<[method |-> "primary", flag |-> primary]>>
    /\ UNCHANGED <<built, suffix, col_ddl, changeSetVars, tableVars, dialectVars>>

Do_not_null ==
    /\ built = <<>>
    /\ \E not_null \in BOOLEAN :
          /\ cb' = ColumnAddBuilder_not_null(cb, not_null)
          /\ last_set' = <<[method |-> "not_null", flag |-> not_null]>>
    /\ UNCHANGED <<built, suffix, col_ddl, changeSetVars, tableVars, dialectVars>>

Do_unique ==
    /\ built = <<>>
    /\ \E unique \in BOOLEAN :
          /\ cb' = ColumnAddBuilder_unique(cb, unique)
          /\ last_set' = <<[method |-> "unique", flag |-> unique]>>
    /\ UNCHANGED <<built, suffix, col_ddl, changeSetVars, tableVars, dialectVars>>

Do_default ==
    /\ built = <<>>
    /\ \E default \in DefaultConstraints :
          /\ cb' = ColumnAddBuilder_default(cb, default)
          /\ last_set' = <<[method |-> "default", default |-> default]>>
    /\ UNCHANGED <<built, suffix, col_ddl, changeSetVars, tableVars, dialectVars>>

\* build(self) consumes the builder
Do_build ==
    /\ built = <<>>
    /\ built' = <<ColumnAddBuilder_build(cb)>>
    /\ UNCHANGED <<cb, suffix, col_ddl, last_set, changeSetVars, tableVars, dialectVars>>

\* dialect.constraints(&column.constraints)
Do_constraints ==
    /\ built # <<>>
    /\ suffix = <<>>
    /\ suffix' = <<Str(Postgres_constraints(Postgres_new, built[1].constraints))>>
    /\ UNCHANGED <<cb, built, col_ddl, last_set, changeSetVars, tableVars, dialectVars>>

\* column.get_ddl(dialect)
Do_column_get_ddl ==
    /\ built # <<>>
    /\ col_ddl = <<>>
    /\ col_ddl' = <<Str(ColumnAddChange_get_ddl(built[1], Postgres_new))>>
    /\ UNCHANGED <<cb, built, suffix, last_set, changeSetVars, tableVars, dialectVars>>

NextColumn ==
    \/ Do_primary
    \/ Do_not_null
    \/ Do_unique
    \/ Do_default
    \/ Do_build
    \/ Do_constraints
    \/ Do_column_get_ddl

SpecColumn == InitColumn /\ [][NextColumn]_vars

(***************************************************************************)
(* SpecDialect: single rendering calls.  Each action makes one call of     *)
(* Change::get_ddl or of a SqlDialect method and records how it ended.     *)
(***************************************************************************)
MaxNested == 2     \* calls made by one handler

DialectTableNames == {"tag", "tags", "xxx"}
DialectScripts ==
    { "DDL INSTRUCTION;", "CREATE EXTENSION IF NOT EXISTS \"uuid-ossp\";", "" }
PrimaryColumns == {<<>>, <<"id">>, <<"id", "id2">>}
AlterColumnTypes == {UUID, VARCHAR(DefaultVarcharSize), TIMESTAMPTZ}
AlterConversionMethods ==
    { None, Some("%%%conversion_method%%%"), Some("\"description\"::uuid"), Some("") }

\* get_ddl takes any Rc<dyn SqlDialect>; the dialects of the model are
\* Postgres values, which differ at most in their schema
Dialects == {Postgres_new, [schema |-> "app"]}

\* the calls of a create_table handler
DialectCreateCalls ==
    { [trait |-> "ColumnAdd", method |-> "add_column",
       column |-> ColumnAddBuilder_build(ColumnAddBuilder_primary(uuid("id"), TRUE))],
      [trait |-> "ColumnAdd", method |-> "add_column",
       column |-> ColumnAddBuilder_build(varchar("description", None))],
      [trait |-> "IndexAdd", method |-> "add_foreign_index", column_name |-> "tag_id",
       foreign_table_name |-> "tag", foreign_column_name |-> "id",
       idx_name |-> Some("fk_blubbi")] }

\* the calls of an alter_table handler
DialectAlterCalls ==
    { [trait |-> "ColumnDrop", method |-> "drop_column_if_exists", name |-> "id3"],
      [trait |-> "ColumnAlter", method |-> "rename_column", name |-> "id2",
       new_name |-> "id3"],
      [trait |-> "ColumnAlter", method |-> "alter_column", name |-> "description2",
       ct |-> UUID, conversion_method |-> None],
      [trait |-> "IndexAlter", method |-> "add_primary_index",
       columns |-> <<"id", "id2">>] }

\* the change a builder call appended
Appended(changeSet) == changeSet.changes[Len(changeSet.changes)]

\* the TableChanges the builder calls of a new ChangeSet append, and the
\* CreateIfNotExists changes TableChange::new builds from the same parts
TableChanges ==
    UNION { { Appended(ChangeSet_create_table(ChangeSet_new, name, handler)),
              TableChange_new(TableChangeOp_CreateIfNotExists, ChangeSet_new.schema, name,
                              Table_get_changes(Invoke(handler, Table_new))) }
            : name \in DialectTableNames,
              handler \in SeqsUpTo(DialectCreateCalls, MaxNested) }
    \cup { Appended(ChangeSet_alter_table(ChangeSet_new, name, handler))
            : name \in DialectTableNames,
              handler \in SeqsUpTo(DialectAlterCalls, MaxNested) }
    \cup { Appended(ChangeSet_drop_table(ChangeSet_new, name)) : name \in DialectTableNames }
    \cup { Appended(ChangeSet_rename_table(ChangeSet_new, pair[1], pair[2]))
            : pair \in {q \in DialectTableNames \X DialectTableNames : q[1] # q[2]} }

InitDialect ==
    /\ request = <<>>
    /\ outcome = <<>>
    /\ ChangeSetIdle
    /\ TableIdle
    /\ ColumnIdle

\* <TableChange as Change>::get_ddl(&self, dialect)
Do_TableChange_get_ddl ==
    /\ \E self \in TableChanges :
          /\ request' = <<[method |-> "TableChange::get_ddl", self |-> self,
                           dialect |-> Postgres_new]>>
          /\ outcome' = <<Returned(TableChange_get_ddl(self, Postgres_new))>>
    /\ UNCHANGED <<changeSetVars, tableVars, columnVars>>

\* <Script as Change>::get_ddl(&self, _dialect) on the Script run_script appended
Do_Script_get_ddl ==
    /\ \E script \in DialectScripts, dialect \in Dialects :
          LET self == Appended(ChangeSet_run_script(ChangeSet_new, script))
          IN  /\ request' = <<[method |-> "Script::get_ddl", self |-> self,
                               dialect |-> dialect]>>
              /\ outcome' = <<Returned(Script_get_ddl(self, dialect))>>
    /\ UNCHANGED <<changeSetVars, tableVars, columnVars>>

\* Postgres::add_foreign_index(&self, ...)
Do_add_foreign_index ==
    /\ \E idx_name \in IdxNames, add_clause \in BOOLEAN :
          /\ request' = <<[method |-> "add_foreign_index", column_name |-> "blubb_id",
                           foreign_table_name |-> "blubb", foreign_column_name |-> "id",
                           idx_name |-> idx_name, add_clause |-> add_clause]>>
          /\ outcome' = <<Returned(Postgres_add_foreign_index(Postgres_new, "blubb_id",
                                      "blubb", "id", idx_name, add_clause))>>
    /\ UNCHANGED <<changeSetVars, tableVars, columnVars>>

\* <IndexAddPrimaryChange as Change>::get_ddl on the instruction that
\* add_primary_index(columns) put into a Table, through either view
Do_IndexAddPrimaryChange_get_ddl ==
    /\ \E columns \in PrimaryColumns, view \in {"IndexAdd", "IndexAlter"} :
          LET self == Table_call(Table_new, [trait |-> view, method |-> "add_primary_index",
                                             columns |-> columns]).idx_changes[1]
          IN  /\ request' = <<[method |-> "IndexAddPrimaryChange::get_ddl", view |-> view,
                               self |-> self, dialect |-> Postgres_new]>>
              /\ outcome' = <<Returned(IndexAddPrimaryChange_get_ddl(self, Postgres_new))>>
    /\ UNCHANGED <<changeSetVars, tableVars, columnVars>>

\* <ColumnAlterChange as Change>::get_ddl on the instruction that
\* alter_column(column_name, new_column_type, conversion_method) put into a Table
Do_ColumnAlterChange_get_ddl ==
    /\ \E column_name \in ColumnNames, new_column_type \in AlterColumnTypes,
          conversion_method \in AlterConversionMethods :
          LET self == ColumnAlter_alter_column(Table_new, column_name, new_column_type,
                                               conversion_method).changes[1]
          IN  /\ request' = <<[method |-> "ColumnAlterChange::get_ddl", self |-> self,
                               dialect |-> Postgres_new]>>
              /\ outcome' = <<Returned(ColumnAlterChange_get_ddl(self, Postgres_new))>>
    /\ UNCHANGED <<changeSetVars, tableVars, columnVars>>

\* Postgres::add_index(&self, table_name, columns, idx_name)
Do_add_index ==
    /\ \E table_name \in DialectTableNames, columns \in PrimaryColumns,
          idx_name \in IdxNames :
          /\ request' = <<[method |-> "add_index", table_name |-> table_name,
                           columns |-> columns, idx_name |-> idx_name]>>
          /\ outcome' = <<Postgres_add_index(Postgres_new, table_name, columns, idx_name)>>
    /\ UNCHANGED <<changeSetVars, tableVars, columnVars>>

\* <IndexAddCombinedChange as Change>::get_ddl(&self, dialect)
Do_IndexAddCombinedChange_get_ddl ==
    /\ \E table_name \in DialectTableNames, columns \in PrimaryColumns,
          idx_name \in IdxNames :
          LET self == IndexAddCombinedChange(table_name, columns, idx_name)
          IN  /\ request' = <<[method |-> "IndexAddCombinedChange::get_ddl",
                               self |-> self, dialect |-> Postgres_new]>>
              /\ outcome' = <<IndexAddCombinedChange_get_ddl(self, Postgres_new)>>
    /\ UNCHANGED <<changeSetVars, tableVars, columnVars>>

NextDialect ==
    \/ Do_TableChange_get_ddl
    \/ Do_Script_get_ddl
    \/ Do_add_foreign_index
    \/ Do_IndexAddPrimaryChange_get_ddl
    \/ Do_ColumnAlterChange_get_ddl
    \/ Do_add_index
    \/ Do_IndexAddCombinedChange_get_ddl

SpecDialect == InitDialect /\ [][NextDialect]_vars

(***************************************************************************)
(* Properties.                                                             *)
(***************************************************************************)
HasPiece(txt, piece) == \E i \in 1..Len(txt) : txt[i] = piece

\* the strings of v with sep between neighbours
RECURSIVE JoinStr(_, _)
JoinStr(v, sep) ==
    IF v = <<>> THEN ""
    ELSE IF Len(v) = 1 THEN v[1]
    ELSE v[1] \o sep \o JoinStr(Tail(v), sep)

\* the Changes a handler leaves in a fresh Table
NestedOf(handler) == Table_get_changes(Invoke(handler, Table_new))

\* the text the i-th builder call asks for, from the call's own arguments
RenderingOfCall(call) ==
    CASE call.method = "create_table" ->
            Postgres_create_table(Postgres_new, call.name,
                [i \in 1..Len(NestedOf(call.handler)) |->
                    Change_get_ddl(NestedOf(call.handler)[i], Postgres_new)], FALSE)
      [] call.method = "alter_table" ->
            Postgres_alter_table(Postgres_new, call.name,
                [i \in 1..Len(NestedOf(call.handler)) |->
                    Change_get_ddl(NestedOf(call.handler)[i], Postgres_new)])
      [] call.method = "drop_table" -> Postgres_drop_table(Postgres_new, call.name)
      [] call.method = "rename_table" ->
            Postgres_rename_table(Postgres_new, call.name, call.new_name)
      [] call.method = "run_script" -> <<call.script, "\n">>

\* C1: after any sequence of builder calls the ChangeSet holds one change per
\* call and every text get_ddl returns is the renderings of the calls, one
\* segment per call, in call order.
C1_CallOrder ==
    /\ Len(cs.changes) = Len(log)
    /\ \A k \in 1..Len(ddls) :
          ddls[k] = JoinStr([i \in 1..Len(log) |-> Str(RenderingOfCall(log[i]))], "\n\n")

C1_Witness ==
    /\ Len(log) >= 2
    /\ log[1].method # log[2].method
    /\ Len(ddls) >= 1

IsIndexCall(call) ==
    call.method \in {"add_primary_index", "add_foreign_index", "add_unique_constraint"}
IsColumnCall(call) == ~IsIndexCall(call)

\* the instruction one call alone leaves in a fresh Table
InstrOf(call) == Table_get_changes(Table_call(Table_new, call))[1]

PlainCalls == SelectSeq(calls, IsColumnCall)
IndexCalls == SelectSeq(calls, IsIndexCall)

\* C2: for any interleaving of column and index calls on a Table, get_changes
\* returns the instructions of the column calls, in call order, followed by
\* those of the index calls, in call order; so a CREATE or ALTER statement
\* built from them renders every plain change before every index change.
C2_PlainBeforeIndex ==
    extracted # <<>> =>
        LET plain == [i \in 1..Len(PlainCalls) |-> InstrOf(PlainCalls[i])]
            index == [i \in 1..Len(IndexCalls) |-> InstrOf(IndexCalls[i])]
            render(list) == [i \in 1..Len(list) |-> Change_get_ddl(list[i], Postgres_new)]
            nested == extracted[1]
        IN  /\ nested = plain \o index
            /\ TableChange_get_ddl(
                   TableChange_new(TableChangeOp_Create, "public", "tag", nested),
                   Postgres_new)
               = Postgres_create_table(Postgres_new, "tag",
                                       render(plain) \o render(index), FALSE)
            /\ TableChange_get_ddl(
                   TableChange_new(TableChangeOp_Alter, "public", "tag", nested),
                   Postgres_new)
               = Postgres_alter_table(Postgres_new, "tag", render(plain) \o render(index))

C2_Witness ==
    /\ extracted # <<>>
    /\ Len(calls) = 3
    /\ IsIndexCall(calls[1])
    /\ IsColumnCall(calls[2])
    /\ IsIndexCall(calls[3])
    /\ calls[1] # calls[3]

\* C3: an add-column instruction has with_prefix = TRUE exactly when it was
\* added through ColumnAlter::add_column; added through ColumnAdd::add_column
\* its rendering has no "ADD COLUMN " piece, added through ColumnAlter it is
\* "ADD COLUMN " followed by the rendering of the same column definition.
C3_AddColumnPrefix ==
    /\ Len(t.changes) = Len(PlainCalls)
    /\ \A i \in 1..Len(PlainCalls) :
          PlainCalls[i].method = "add_column" =>
             LET call == PlainCalls[i]
                 instr == t.changes[i]
                 r == Change_get_ddl(instr, Postgres_new)
                 bare == Change_get_ddl(call.column, Postgres_new)
             IN  /\ instr.kind = "ColumnAddChange"
                 /\ instr.with_prefix = (call.trait = "ColumnAlter")
                 /\ call.trait = "ColumnAdd" => ~HasPiece(r, "ADD COLUMN ") /\ r = bare
                 /\ call.trait = "ColumnAlter" => r = <<"ADD COLUMN ">> \o bare

C3_Witness ==
    \E i, j \in 1..Len(calls) :
        /\ calls[i].method = "add_column" /\ calls[i].trait = "ColumnAdd"
        /\ calls[j].method = "add_column" /\ calls[j].trait = "ColumnAlter"
        /\ calls[i].column = calls[j].column

\* C4: drop_column(name) records one drop instruction with if_exists = FALSE
\* that renders DROP COLUMN "name"; drop_column_if_exists(name) records one
\* with if_exists = TRUE that renders DROP COLUMN IF EXISTS "name".
C4_DropColumnGuard ==
    /\ Len(t.changes) = Len(PlainCalls)
    /\ Len(t.idx_changes) = Len(IndexCalls)
    /\ \A i \in 1..Len(PlainCalls) :
          LET call == PlainCalls[i]
              instr == t.changes[i]
              r == Change_get_ddl(instr, Postgres_new)
          IN  /\ call.method = "drop_column" =>
                    /\ instr = [kind |-> "ColumnDropChange", name |-> call.name,
                                if_exists |-> FALSE]
                    /\ ~HasPiece(r, "IF EXISTS ")
                    /\ Str(r) = "DROP COLUMN \"" \o call.name \o "\""
              /\ call.method = "drop_column_if_exists" =>
                    /\ instr = [kind |-> "ColumnDropChange", name |-> call.name,
                                if_exists |-> TRUE]
                    /\ HasPiece(r, "IF EXISTS ")
                    /\ Str(r) = "DROP COLUMN IF EXISTS \"" \o call.name \o "\""

C4_Witness ==
    /\ Len(calls) >= 2
    /\ calls[1].method = "drop_column"
    /\ calls[2].method = "drop_column_if_exists"
    /\ Len(t.changes) = 2

DocTestCalls ==
    << [method |-> "drop_table", name |-> "my_table"],
       [method |-> "run_script", script |-> "DDL INSTRUCTION;"] >>

\* C6: the text get_ddl returns is the renderings of the top-level changes,
\* in list order, with "\n\n" between neighbours and nowhere else; it is ""
\* for an empty ChangeSet, and after drop_table("my_table") and
\* run_script("DDL INSTRUCTION;") it is the text of the doc test.
C6_JoinedByBlankLine ==
    \A k \in 1..Len(ddls) :
        /\ ddls[k] = JoinStr([i \in 1..Len(cs.changes) |->
                                 Str(Change_get_ddl(cs.changes[i], Postgres_new))],
                             "\n\n")
        /\ cs.changes = <<>> => ddls[k] = ""
        /\ log = DocTestCalls =>
              ddls[k] = "DROP TABLE public.\"my_table\";\n\nDDL INSTRUCTION;\n"

C6_Witness ==
    /\ log = DocTestCalls
    /\ Len(ddls) >= 1

\* the change a builder call has to append, from the call's own arguments
ExpectedChange(call) ==
    CASE call.method = "create_table" ->
            [kind |-> "TableChange", operation |-> [op |-> "Create"],
             name |-> call.name, changes |-> NestedOf(call.handler)]
      [] call.method = "alter_table" ->
            [kind |-> "TableChange", operation |-> [op |-> "Alter"],
             name |-> call.name, changes |-> NestedOf(call.handler)]
      [] call.method = "drop_table" ->
            [kind |-> "TableChange", operation |-> [op |-> "Drop"],
             name |-> call.name, changes |-> <<>>]
      [] call.method = "rename_table" ->
            [kind |-> "TableChange",
             operation |-> [op |-> "Rename", new_table_name |-> call.new_name],
             name |-> call.name, changes |-> <<>>]
      [] call.method = "run_script" -> [kind |-> "Script", script |-> call.script]

\* C7: every builder call appends exactly one element at the end of the
\* change list: for create_table and alter_table a TableChange with the
\* variant of the method, the given name and what one run of the handler on
\* a fresh Table accumulated; for drop_table and rename_table a TableChange
\* with variant Drop or Rename{new_name}; for run_script the Script.
C7_OneAppendPerCall ==
    [][log' # log =>
          /\ Len(log') = Len(log) + 1
          /\ cs'.changes = Append(cs.changes, ExpectedChange(log'[Len(log')]))]_vars

C7_Witness ==
    /\ Len(cs.changes) = 2
    /\ log[2].method = "create_table"
    /\ Len(log[2].handler) = 2
    /\ log[1].method = "rename_table"

RenderAll(c) == Str(ChangeSet_get_ddl(c, Postgres_new))

\* C8 as claimed: a builder call keeps the changes already appended and the
\* text after it is the text before it, the separator and the rendering of
\* the new change.
C8_Original ==
    [][log' # log =>
          /\ SubSeq(cs'.changes, 1, Len(cs.changes)) = cs.changes
          /\ RenderAll(cs') =
                RenderAll(cs) \o "\n\n"
                \o Str(Change_get_ddl(cs'.changes[Len(cs'.changes)], Postgres_new))]_vars

\* C8, amended: a builder call keeps the changes already appended, and the
\* text after it is the text before it followed by the rendering of the new
\* change, with the separator between the two when the ChangeSet was not
\* empty and without it when it was.
C8_AppendOnlyPrefix ==
    [][log' # log =>
          /\ SubSeq(cs'.changes, 1, Len(cs.changes)) = cs.changes
          /\ RenderAll(cs') =
                RenderAll(cs)
                \o (IF cs.changes = <<>> THEN "" ELSE "\n\n")
                \o Str(Change_get_ddl(cs'.changes[Len(cs'.changes)], Postgres_new))]_vars

C8_Witness ==
    /\ Len(cs.changes) = 2
    /\ cs.changes[1].kind = "TableChange"
    /\ Len(cs.changes[1].changes) >= 1
    /\ cs.changes[2].kind = "Script"

AllSet ==
    [primary |-> TRUE, not_null |-> TRUE, unique |-> TRUE,
     default |-> [tag |-> "Plain", expr |-> "x"]]
NoneSet ==
    [primary |-> FALSE, not_null |-> FALSE, unique |-> FALSE,
     default |-> [tag |-> "None"]]

\* C9: with primary, not_null and unique set and default Plain("x") the
\* constraint suffix is " PRIMARY KEY NOT NULL UNIQUE DEFAULT x"; with none
\* of the four set it is "".
C9_SuffixAllOrNone ==
    suffix # <<>> =>
        /\ built[1].constraints = AllSet =>
              suffix[1] = " PRIMARY KEY NOT NULL UNIQUE DEFAULT x"
        /\ built[1].constraints = NoneSet => suffix[1] = ""

C9_Witness ==
    /\ suffix # <<>>
    /\ built[1].constraints = AllSet

\* the enabled clauses, in the fixed order
Clauses(c) ==
    (IF c.primary THEN <<"PRIMARY KEY">> ELSE <<>>)
    \o (IF c.not_null THEN <<"NOT NULL">> ELSE <<>>)
    \o (IF c.unique THEN <<"UNIQUE">> ELSE <<>>)
    \o (IF c.default.tag = "Plain" THEN <<"DEFAULT " \o c.default.expr>> ELSE <<>>)

\* C10: for every combination of the four settings (with a non-empty default
\* expression) the suffix is the enabled clauses in the order PRIMARY KEY,
\* NOT NULL, UNIQUE, DEFAULT <expr>, one space before each.
C10_SuffixEnabledClauses ==
    (suffix # <<>> /\ (built[1].constraints.default.tag = "Plain"
                          => built[1].constraints.default.expr # "")) =>
        suffix[1] = (IF Clauses(built[1].constraints) = <<>> THEN ""
                     ELSE " " \o JoinStr(Clauses(built[1].constraints), " "))

(***************************************************************************)
(* Rendering of single changes (SpecDialect).                              *)
(***************************************************************************)
\* the last call was TableChange::get_ddl on a change of operation op, and returned
TableChangeRendered(op) ==
    /\ request # <<>>
    /\ request[1].method = "TableChange::get_ddl"
    /\ request[1].self.operation.op = op
    /\ outcome[1].tag = "Returned"

\* the String the last call returned
ReturnedString == Str(outcome[1].value)

\* the Strings the nested changes of self render to, in stored order
NestedRenders(self, dialect) ==
    [i \in 1..Len(self.changes) |-> Str(Change_get_ddl(self.changes[i], dialect))]

ScenarioCreateTag ==
    Appended(ChangeSet_create_table(ChangeSet_new, "tag",
        << [trait |-> "ColumnAdd", method |-> "add_column",
            column |-> ColumnAddBuilder_build(ColumnAddBuilder_primary(uuid("id"), TRUE))],
           [trait |-> "ColumnAdd", method |-> "add_column",
            column |-> ColumnAddBuilder_build(varchar("description", None))] >>))

\* C11: a create-table change renders as CREATE TABLE <schema>."<name>" (\n,
\* its nested renders in stored order joined by ",\n", then \n); -- with the
\* existence guard the only difference is "IF NOT EXISTS " after
\* "CREATE TABLE "; an empty nested list gives "(\n\n);"; create_table("tag")
\* with uuid "id" primary and varchar "description" of default size renders
\* CREATE TABLE public."tag" (\n"id" uuid PRIMARY KEY,\n"description" VARCHAR(255)\n);
C11_CreateTableRendering ==
    \A guarded \in BOOLEAN :
       TableChangeRendered(IF guarded THEN "CreateIfNotExists" ELSE "Create") =>
          LET self == request[1].self
              schema == request[1].dialect.schema
              head == "CREATE TABLE " \o (IF guarded THEN "IF NOT EXISTS " ELSE "")
                      \o schema \o ".\"" \o self.name \o "\" (\n"
          IN  /\ ReturnedString
                 = head \o JoinStr(NestedRenders(self, request[1].dialect), ",\n") \o "\n);"
              /\ self.changes = <<>> => ReturnedString = head \o "\n);"
              /\ self = ScenarioCreateTag =>
                    ReturnedString
                    = "CREATE TABLE public.\"tag\" (\n\"id\" uuid PRIMARY KEY,\n\"description\" VARCHAR(255)\n);"

C11_Witness ==
    /\ TableChangeRendered("Create")
    /\ request[1].self = ScenarioCreateTag
    /\ ReturnedString
       = "CREATE TABLE public.\"tag\" (\n\"id\" uuid PRIMARY KEY,\n\"description\" VARCHAR(255)\n);"

ScenarioAlterXxx ==
    Appended(ChangeSet_alter_table(ChangeSet_new, "xxx",
        << [trait |-> "ColumnDrop", method |-> "drop_column_if_exists", name |-> "id3"] >>))

\* C12: an alter-table change renders as ALTER TABLE <schema>."<name>"\n, its
\* nested renders in stored order joined by ",\n", then ";", without
\* parentheses; an empty nested list on "tags" gives ALTER TABLE public."tags"\n;
\* and alter_table("xxx") with only drop_column_if_exists("id3") renders
\* ALTER TABLE public."xxx"\nDROP COLUMN IF EXISTS "id3";
C12_AlterTableRendering ==
    TableChangeRendered("Alter") =>
       LET self == request[1].self
           schema == request[1].dialect.schema
       IN  /\ ReturnedString
              = "ALTER TABLE " \o schema \o ".\"" \o self.name \o "\"\n"
                \o JoinStr(NestedRenders(self, request[1].dialect), ",\n") \o ";"
           /\ ~HasPiece(outcome[1].value, " (\n") /\ ~HasPiece(outcome[1].value, "\n);")
           /\ self.changes = <<>> /\ self.name = "tags" =>
                 ReturnedString = "ALTER TABLE public.\"tags\"\n;"
           /\ self = ScenarioAlterXxx =>
                 ReturnedString = "ALTER TABLE public.\"xxx\"\nDROP COLUMN IF EXISTS \"id3\";"

C12_Witness ==
    /\ TableChangeRendered("Alter")
    /\ request[1].self = ScenarioAlterXxx
    /\ ReturnedString = "ALTER TABLE public.\"xxx\"\nDROP COLUMN IF EXISTS \"id3\";"

\* the number of pieces of txt equal to piece
RECURSIVE CountPiece(_, _)
CountPiece(txt, piece) ==
    IF txt = <<>> THEN 0
    ELSE (IF Head(txt) = piece THEN 1 ELSE 0) + CountPiece(Tail(txt), piece)

\* C13: rename_table(name, new_name) renders exactly one statement
\* ALTER TABLE <schema>."<name>" RENAME TO <schema>."<new_name>"; with both
\* names qualified by the same schema; rename_table("tags", "tag") renders
\* ALTER TABLE public."tags" RENAME TO public."tag";
C13_RenameTableRendering ==
    TableChangeRendered("Rename") =>
       LET self == request[1].self
           schema == request[1].dialect.schema
       IN  /\ ReturnedString
              = "ALTER TABLE " \o schema \o ".\"" \o self.name \o "\" RENAME TO "
                \o schema \o ".\"" \o self.operation.new_table_name \o "\";"
           /\ CountPiece(outcome[1].value, ";") = 1
           /\ outcome[1].value[Len(outcome[1].value)] = ";"
           /\ CountPiece(outcome[1].value, schema) = 2
           /\ self = Appended(ChangeSet_rename_table(ChangeSet_new, "tags", "tag")) =>
                 ReturnedString = "ALTER TABLE public.\"tags\" RENAME TO public.\"tag\";"

C13_Witness ==
    /\ TableChangeRendered("Rename")
    /\ request[1].self = Appended(ChangeSet_rename_table(ChangeSet_new, "tags", "tag"))
    /\ ReturnedString = "ALTER TABLE public.\"tags\" RENAME TO public.\"tag\";"

\* C14: run_script(text) renders as exactly text followed by one newline, for
\* every text and whatever dialect is passed: nothing is quoted, escaped,
\* qualified by a schema or otherwise transformed.
C14_ScriptVerbatim ==
    (request # <<>> /\ request[1].method = "Script::get_ddl") =>
       LET script == request[1].self.script
       IN  /\ outcome[1].tag = "Returned"
           /\ outcome[1].value = Tok(script) \o <<"\n">>
           /\ ReturnedString = script \o "\n"
           /\ \A dialect \in Dialects :
                 Str(Change_get_ddl(request[1].self, dialect)) = ReturnedString

C14_Witness ==
    /\ request # <<>>
    /\ request[1].method = "Script::get_ddl"
    /\ request[1].dialect # Postgres_new
    /\ ReturnedString = "CREATE EXTENSION IF NOT EXISTS \"uuid-ossp\";\n"

\* C15: a foreign index renders as FOREIGN KEY("<col>") REFERENCES
\* "<table>"("<fcol>"), preceded by "ADD " exactly when add_clause is true and
\* by "CONSTRAINT <name> " exactly when a name is supplied, in the order ADD,
\* CONSTRAINT <name>, FOREIGN KEY, in all four combinations of flag and name.
C15_ForeignIndexRendering ==
    (request # <<>> /\ request[1].method = "add_foreign_index") =>
       LET r == request[1]
           key == "FOREIGN KEY(\"" \o r.column_name \o "\") REFERENCES \""
                  \o r.foreign_table_name \o "\"(\"" \o r.foreign_column_name \o "\")"
       IN  /\ outcome[1].tag = "Returned"
           /\ HasPiece(outcome[1].value, "ADD ") <=> r.add_clause
           /\ HasPiece(outcome[1].value, "CONSTRAINT ") <=> r.idx_name # None
           /\ (~r.add_clause /\ r.idx_name = None) => ReturnedString = key
           /\ (r.add_clause /\ r.idx_name = None) => ReturnedString = "ADD " \o key
           /\ (~r.add_clause /\ r.idx_name # None) =>
                 ReturnedString = "CONSTRAINT " \o r.idx_name[1] \o " " \o key
           /\ (r.add_clause /\ r.idx_name # None) =>
                 ReturnedString = "ADD CONSTRAINT " \o r.idx_name[1] \o " " \o key

C15_Witness ==
    /\ request # <<>>
    /\ request[1].method = "add_foreign_index"
    /\ request[1].add_clause
    /\ request[1].idx_name = Some("fk_blubbi")
    /\ ReturnedString
       = "ADD CONSTRAINT fk_blubbi FOREIGN KEY(\"blubb_id\") REFERENCES \"blubb\"(\"id\")"

\* C16: rendering the generic secondary index (IndexAddCombinedChange::get_ddl,
\* SqlDialect::add_index on Postgres) ends with an Unsupported error returned
\* to the caller: the call does not panic and returns no substitute text.
C16_AddIndexUnsupportedError ==
    (request # <<>>
     /\ request[1].method \in {"add_index", "IndexAddCombinedChange::get_ddl"}) =>
       /\ outcome[1].tag # "Panicked"
       /\ outcome[1].tag # "Returned"
       /\ outcome[1] = [tag |-> "Err", error |-> "Unsupported"]

\* C17: rendering an index instruction whose column list is empty, such as
\* the one add_primary_index(vec![]) adds, gives the caller of get_ddl an
\* InvalidConfiguration error and no DDL text (such as PRIMARY KEY()).
C17_EmptyIndexColumnsError ==
    (request # <<>>
     /\ request[1].method = "IndexAddPrimaryChange::get_ddl"
     /\ request[1].self.columns = <<>>) =>
       /\ outcome[1].tag # "Returned"
       /\ outcome[1] = [tag |-> "Err", error |-> "InvalidConfiguration"]

\* the elements of a sequence
Range(v) == {v[i] : i \in 1..Len(v)}

\* the caller-supplied names a change carries, those of its nested changes included
RECURSIVE NamesOf(_)
NamesOf(c) ==
    CASE c.kind = "TableChange" ->
            {c.name}
            \cup (IF c.operation.op = "Rename" THEN {c.operation.new_table_name} ELSE {})
            \cup UNION {NamesOf(c.changes[i]) : i \in 1..Len(c.changes)}
      [] c.kind \in {"ColumnAddChange", "ColumnDropChange", "ColumnAlterChange"} -> {c.name}
      [] c.kind = "ColumnRenameChange" -> {c.name, c.new_name}
      [] c.kind = "IndexAddPrimaryChange" -> Range(c.columns)
      [] c.kind = "IndexAddForeignChange" ->
            {c.column_name, c.foreign_table_name, c.foreign_column_name} \cup Range(c.idx_name)
      [] OTHER -> {}

\* the caller-supplied names of the last call
RequestNames ==
    IF request[1].method \in {"TableChange::get_ddl", "IndexAddPrimaryChange::get_ddl",
                             "ColumnAlterChange::get_ddl"}
    THEN NamesOf(request[1].self)
    ELSE IF request[1].method = "add_foreign_index"
    THEN {request[1].column_name, request[1].foreign_table_name,
          request[1].foreign_column_name} \cup Range(request[1].idx_name)
    ELSE {}

\* every occurrence of a name of names in txt stands between two double quotes
AllQuoted(txt, names) ==
    \A i \in 1..Len(txt) :
       txt[i] \in names => /\ 1 < i /\ i < Len(txt)
                           /\ txt[i - 1] = "\"" /\ txt[i + 1] = "\""

\* C18: in every Postgres rendering each caller-supplied name (table name, new
\* table name, column name, new column name, primary-index column, foreign
\* table, foreign column, foreign-key constraint name) appears enclosed in
\* double quotes.
C18_NamesDoubleQuoted ==
    (request # <<>> /\ outcome[1].tag = "Returned") =>
       /\ \A name \in RequestNames : HasPiece(outcome[1].value, name)
       /\ AllQuoted(outcome[1].value, RequestNames)

(***************************************************************************)
(* Schema and nested lists of the appended TableChanges (Spec).            *)
(***************************************************************************)
\* txt holds the qualified table name schema."name"
HasQualifiedName(txt, schema, name) ==
    \E k \in 1..(Len(txt) - 4) :
       /\ txt[k] = schema /\ txt[k + 1] = "." /\ txt[k + 2] = "\""
       /\ txt[k + 3] = name /\ txt[k + 4] = "\""

\* C19: every TableChange appended by create_table, alter_table, drop_table or
\* rename_table is tagged with the ChangeSet's schema, and the schema qualifier
\* of its rendered statement (schema."table") is that schema.
C19_TaggedWithChangeSetSchema ==
    \A i \in 1..Len(cs.changes) :
       cs.changes[i].kind = "TableChange" =>
          /\ "schema" \in DOMAIN cs.changes[i]
          /\ cs.changes[i].schema = cs.schema
          /\ HasQualifiedName(Change_get_ddl(cs.changes[i], Postgres_new),
                              cs.schema, cs.changes[i].name)

\* C20: the changes appended by drop_table and rename_table hold an empty
\* nested change list and each renders as a single statement with no nested
\* renders; drop_table(name) renders exactly DROP TABLE <schema>."<name>";
C20_DropRenameSingleStatement ==
    \A i \in 1..Len(log) :
       log[i].method \in {"drop_table", "rename_table"} =>
          LET c == cs.changes[i]
              r == Change_get_ddl(c, Postgres_new)
          IN  /\ c.kind = "TableChange"
              /\ c.name = log[i].name
              /\ c.changes = <<>>
              /\ CountPiece(r, ";") = 1 /\ r[Len(r)] = ";"
              /\ ~HasPiece(r, ",\n") /\ ~HasPiece(r, "\n")
              /\ log[i].method = "drop_table" =>
                    /\ c.operation = TableChangeOp_Drop
                    /\ Str(r) = "DROP TABLE " \o Postgres_new.schema \o ".\""
                                \o log[i].name \o "\";"
              /\ log[i].method = "rename_table" =>
                    /\ c.operation = TableChangeOp_Rename(log[i].new_name)
                    /\ r = Postgres_rename_table(Postgres_new, log[i].name, log[i].new_name)

C20_Witness ==
    /\ Len(log) = 2
    /\ log[1].method = "create_table" /\ log[1].handler # <<>>
    /\ log[2] = [method |-> "drop_table", name |-> "my_table"]
    /\ ddls # <<>>
    /\ ddls[1] = Str(Change_get_ddl(cs.changes[1], Postgres_new))
                 \o "\n\nDROP TABLE public.\"my_table\";"

(***************************************************************************)
(* Accumulators, views and builders (C21 to C25).                          *)
(***************************************************************************)
\* the instructions of the column calls of handler, in call order
ColumnInstrsOf(handler) ==
    LET kept == SelectSeq(handler, IsColumnCall)
    IN  [i \in 1..Len(kept) |-> InstrOf(kept[i])]

\* the instructions of the index calls of handler, in call order
IndexInstrsOf(handler) ==
    LET kept == SelectSeq(handler, IsIndexCall)
    IN  [i \in 1..Len(kept) |-> InstrOf(kept[i])]

\* C21: every create_table or alter_table call starts from a fresh, empty
\* Table: the nested list of the TableChange it appends holds exactly the
\* instructions added by that call's handler, in the accumulator's order
\* (column instructions, then index instructions), none of any other call,
\* and a handler that adds nothing gives an empty nested list.
C21_FreshAccumulatorPerCall ==
    \A i \in 1..Len(log) :
       log[i].method \in {"create_table", "alter_table"} =>
          /\ cs.changes[i].changes
             = ColumnInstrsOf(log[i].handler) \o IndexInstrsOf(log[i].handler)
          /\ Len(cs.changes[i].changes) = Len(log[i].handler)
          /\ log[i].handler = <<>> => cs.changes[i].changes = <<>>

C21_Witness ==
    /\ Len(log) = 2
    /\ log[1].method = "alter_table" /\ Len(log[1].handler) = 1
    /\ log[2].method = "create_table" /\ Len(log[2].handler) = 1
    /\ cs.changes[1].changes = <<InstrOf(log[1].handler[1])>>
    /\ cs.changes[2].changes = <<InstrOf(log[2].handler[1])>>
    /\ cs.changes[1].changes # cs.changes[2].changes

\* C22: a foreign-index instruction has add_clause = TRUE exactly when it was
\* added through IndexAlter::add_foreign_index and FALSE when added through
\* IndexAdd::add_foreign_index, so it renders with the "ADD " prefix as part
\* of ALTER TABLE and as a bare clause as part of CREATE TABLE; through both
\* views it goes to the index list, not to the plain list.
C22_ForeignIndexAddClause ==
    /\ Len(t.idx_changes) = Len(IndexCalls)
    /\ \A j \in 1..Len(t.changes) : t.changes[j].kind # "IndexAddForeignChange"
    /\ \A i \in 1..Len(IndexCalls) :
          IndexCalls[i].method = "add_foreign_index" =>
             LET call == IndexCalls[i]
                 instr == t.idx_changes[i]
                 r == Change_get_ddl(instr, Postgres_new)
                 clause == (IF call.idx_name # None
                            THEN "CONSTRAINT " \o call.idx_name[1] \o " " ELSE "")
                           \o "FOREIGN KEY(\"" \o call.column_name \o "\") REFERENCES \""
                           \o call.foreign_table_name \o "\"(\""
                           \o call.foreign_column_name \o "\")"
             IN  /\ instr.kind = "IndexAddForeignChange"
                 /\ instr.add_clause <=> call.trait = "IndexAlter"
                 /\ ~instr.add_clause <=> call.trait = "IndexAdd"
                 /\ call.trait = "IndexAlter" => Str(r) = "ADD " \o clause
                 /\ call.trait = "IndexAdd" => Str(r) = clause /\ ~HasPiece(r, "ADD ")
                 /\ extracted # <<>> => extracted[1][Len(t.changes) + i] = instr

C22_Witness ==
    /\ extracted # <<>>
    /\ Len(calls) = 3
    /\ calls[1].trait = "IndexAlter" /\ calls[1].method = "add_foreign_index"
    /\ calls[2].trait = "ColumnAdd"
    /\ calls[3].trait = "IndexAdd" /\ calls[3].method = "add_foreign_index"
    /\ t.idx_changes[1].add_clause /\ ~t.idx_changes[2].add_clause

\* C23: an alter-column-type instruction renders as
\* ALTER COLUMN "<name>" TYPE <type>, followed by " USING <expr>" exactly when
\* a conversion expression was supplied; the expression is emitted verbatim
\* and with no expression nothing follows the type name.
C23_AlterColumnRendering ==
    (request # <<>> /\ request[1].method = "ColumnAlterChange::get_ddl") =>
       LET self == request[1].self
           type == Postgres_column_type(request[1].dialect, self.ct)
           head == <<"ALTER COLUMN ", "\"", self.name, "\"", " TYPE ">> \o type
       IN  /\ outcome[1].tag = "Returned"
           /\ SubSeq(outcome[1].value, 1, Len(head)) = head
           /\ HasPiece(outcome[1].value, " USING ") <=> self.conversion_method # None
           /\ self.conversion_method = None =>
                 /\ outcome[1].value = head
                 /\ ReturnedString
                    = "ALTER COLUMN \"" \o self.name \o "\" TYPE " \o Str(type)
           /\ self.conversion_method # None =>
                 /\ outcome[1].value
                    = head \o <<" USING ">> \o Tok(self.conversion_method[1])
                 /\ ReturnedString
                    = "ALTER COLUMN \"" \o self.name \o "\" TYPE " \o Str(type)
                      \o " USING " \o self.conversion_method[1]

C23_Witness ==
    /\ request # <<>>
    /\ request[1].method = "ColumnAlterChange::get_ddl"
    /\ request[1].self.conversion_method = Some("\"description\"::uuid")
    /\ ReturnedString
       = "ALTER COLUMN \"description\" TYPE uuid USING \"description\"::uuid"

ConstraintFields == {"primary", "not_null", "unique", "default"}

\* the argument of a recorded setter call
ArgumentOf(call) == IF call.method = "default" THEN call.default ELSE call.flag

\* C24: a new ColumnAddBuilder has primary, not_null and unique false,
\* default None and with_prefix false; each setter (primary, not_null, unique,
\* default) changes only its own constraint field and leaves the name, the
\* column type and the other constraints as they were, for any order and
\* repetition of setter calls, and the field holds the last value set.
C24_SetterFrame ==
    /\ cb.inner.constraints
       = [primary |-> FALSE, not_null |-> FALSE, unique |-> FALSE,
          default |-> DefaultConstraint_None]
    /\ cb.inner.with_prefix = FALSE
    /\ [][(cb' # cb \/ last_set' # last_set) =>
             /\ last_set' # <<>>
             /\ cb'.inner.constraints[last_set'[1].method] = ArgumentOf(last_set'[1])
             /\ \A f \in ConstraintFields \ {last_set'[1].method} :
                   cb'.inner.constraints[f] = cb.inner.constraints[f]
             /\ cb'.inner.name = cb.inner.name
             /\ cb'.inner.ct = cb.inner.ct
             /\ cb'.inner.with_prefix = cb.inner.with_prefix]_vars

C24_Witness ==
    /\ last_set = <<[method |-> "primary", flag |-> FALSE]>>
    /\ ~cb.inner.constraints.primary
    /\ cb.inner.constraints.not_null
    /\ cb.inner.constraints.unique
    /\ cb.inner.constraints.default = DefaultConstraint_Plain("x")
    /\ cb.inner.ct = VARCHAR(36)

\* C25: a primary-index instruction renders as PRIMARY KEY("c1", "c2", ...)
\* with the column names in the given order, each double-quoted and joined by
\* ", "; the instruction and its rendering are the same through the
\* create-time and the alter-time view, so as part of an ALTER TABLE statement
\* it has no ADD prefix.
C25_PrimaryIndexRendering ==
    (request # <<>>
     /\ request[1].method = "IndexAddPrimaryChange::get_ddl"
     /\ request[1].self.columns # <<>>) =>
       LET self == request[1].self
           columns == self.columns
           quoted == [i \in 1..Len(columns) |-> "\"" \o columns[i] \o "\""]
           other == IF request[1].view = "IndexAdd" THEN "IndexAlter" ELSE "IndexAdd"
           alter == TableChange_new(TableChangeOp_Alter, "public", "tag", <<self>>)
       IN  /\ outcome[1].tag = "Returned"
           /\ ReturnedString = "PRIMARY KEY(" \o JoinStr(quoted, ", ") \o ")"
           /\ columns = <<"id", "id2">> => ReturnedString = "PRIMARY KEY(\"id\", \"id2\")"
           /\ self = InstrOf([trait |-> other, method |-> "add_primary_index",
                              columns |-> columns])
           /\ ~HasPiece(outcome[1].value, "ADD ")
           /\ Str(TableChange_get_ddl(alter, Postgres_new))
              = "ALTER TABLE public.\"tag\"\n" \o ReturnedString \o ";"

C25_Witness ==
    /\ request # <<>>
    /\ request[1].method = "IndexAddPrimaryChange::get_ddl"
    /\ request[1].view = "IndexAlter"
    /\ ReturnedString = "PRIMARY KEY(\"id\", \"id2\")"

====
